---- MODULE Spec2Model ----
(***************************************************************************)
(* NIfTI slice extraction, rotation, intensity rescaling and PNG output:   *)
(* NiftiProcessorTool (medrax/tools/nifti.py, the single-slice driver) and *)
(* convert_nii_to_png (medrax/tools/nifti2image.py, the batch driver).     *)
(***************************************************************************)
EXTENDS Integers, Sequences, FiniteSets, TLC

VARIABLES disk, run, temp_dir, batch, dirs, pngs

vars == <<disk, run, temp_dir, batch, dirs, pngs>>

(***************************************************************************)
(* Bounds of the generated volumes.                                        *)
(***************************************************************************)
MaxDim == 2

MaxVoxels == 4

MaxVal == 2

(***************************************************************************)
(* Arrays (numpy.ndarray): a shape and a value per 0-based index tuple.    *)
(***************************************************************************)
Vals == 0 .. MaxVal

Axis(n) == 0 .. (n - 1)

Idx(shape) ==
    CASE Len(shape) = 2 -> Axis(shape[1]) \X Axis(shape[2])
      [] Len(shape) = 3 -> Axis(shape[1]) \X Axis(shape[2]) \X Axis(shape[3])
      [] Len(shape) = 4 -> Axis(shape[1]) \X Axis(shape[2]) \X Axis(shape[3]) \X Axis(shape[4])
      [] OTHER -> {}

NoArray == [shape |-> <<>>, data |-> <<>>]

Voxels(shape) ==
    CASE Len(shape) = 2 -> shape[1] * shape[2]
      [] Len(shape) = 3 -> shape[1] * shape[2] * shape[3]
      [] Len(shape) = 4 -> shape[1] * shape[2] * shape[3] * shape[4]
      [] OTHER -> 0

Dims == 1 .. MaxDim

Shapes ==
    { s \in (Dims \X Dims) \cup (Dims \X Dims \X Dims) \cup (Dims \X Dims \X Dims \X Dims) :
        Voxels(s) <= MaxVoxels }

ArraysOfShape(s) == { [shape |-> s, data |-> d] : d \in [Idx(s) -> Vals] }

\* The all-constant volumes of shape (4,4,2), and their 4-D counterparts.
FlatShapes == { <<4, 4, 2>>, <<4, 4, 2, 1>> }

FlatVolumes == { [shape |-> s, data |-> [ix \in Idx(s) |-> v]] : s \in FlatShapes, v \in Vals }

Volumes == UNION { ArraysOfShape(s) : s \in Shapes } \cup FlatVolumes

ArrMin(a) == CHOOSE m \in { a.data[ix] : ix \in DOMAIN a.data } :
                 \A ix \in DOMAIN a.data : m <= a.data[ix]

ArrMax(a) == CHOOSE m \in { a.data[ix] : ix \in DOMAIN a.data } :
                 \A ix \in DOMAIN a.data : m >= a.data[ix]

(***************************************************************************)
(* Paths are character sequences; the input files of the file system.      *)
(***************************************************************************)
NiiPath == <<"d", "/", "s", ".", "n", "i", "i">>

GzPath == <<"t", ".", "v", "2", ".", "n", "i", "i", ".", "g", "z">>

PngPath == <<"s", ".", "p", "n", "g">>

CorruptPath == <<"c", ".", "n", "i", "i">>

MissingPath == <<"m", ".", "n", "i", "i">>

MissingTxt == <<"m", ".", "t", "x", "t">>

ExistingPaths == { NiiPath, GzPath, PngPath, CorruptPath }

Paths == ExistingPaths \cup { MissingPath, MissingTxt }

NoFile == [kind |-> "other", vol |-> NoArray, affine |-> "", header |-> ""]

\* Both decodable files hold the volume v; the others do not decode.
DiskWith(v) ==
    [ p \in ExistingPaths |->
        IF p \in { NiiPath, GzPath }
        THEN [kind |-> "nifti", vol |-> v, affine |-> "affine", header |-> "header"]
        ELSE NoFile ]

\* rotation_angle is Optional[int]: <<>> is None, <<a>> is the integer a.
None == <<>>

Angles == { None, <<0>>, <<45>>, <<90>>, <<180>>, <<270>>, <<360>> }

Supported == { <<0>>, <<90>>, <<180>>, <<270>> }

\* uuid.uuid4().hex[:8]: the 2^32 tokens, abstracted to two.
HexIds == { <<"0", "a", "1", "b", "2", "c", "3", "d">>, <<"9", "e", "8", "f", "7", "a", "6", "b">> }

Exc(type, msg) == [type |-> type, msg |-> msg]

NoExc == Exc("", "")

\* The classes `except Exception` catches: every error raised here is one.
ExceptionClasses ==
    { "FileNotFoundError", "ImageFileError", "IndexError", "TypeError", "OSError",
      "ValueError", "UnboundLocalError", "ZeroDivisionError" }

EndsWith(s, suf) ==
    /\ Len(s) >= Len(suf)
    /\ SubSeq(s, Len(s) - Len(suf) + 1, Len(s)) = suf

(***************************************************************************)
(* numpy and nibabel, as the drivers use them.                             *)
(***************************************************************************)
\* nibabel.load(path) followed by get_fdata(): the volume, or the error raised.
NibLoad(d, path) ==
    IF path \notin DOMAIN d
    THEN [ok |-> FALSE, exc |-> Exc("FileNotFoundError", "No such file or no access"), file |-> NoFile]
    ELSE IF d[path].kind # "nifti"
         THEN [ok |-> FALSE, exc |-> Exc("ImageFileError", "Cannot work out file type"), file |-> d[path]]
         ELSE [ok |-> TRUE, exc |-> NoExc, file |-> d[path]]

\* a[:, :, k] of a 3-D array.
Slice3(a, k) ==
    [ shape |-> <<a.shape[1], a.shape[2]>>,
      data |-> [ ix \in Idx(<<a.shape[1], a.shape[2]>>) |-> a.data[<<ix[1], ix[2], k>>] ] ]

\* a[:, :, k, w] of a 4-D array.
Slice4(a, k, w) ==
    [ shape |-> <<a.shape[1], a.shape[2]>>,
      data |-> [ ix \in Idx(<<a.shape[1], a.shape[2]>>) |-> a.data[<<ix[1], ix[2], k, w>>] ] ]

\* numpy.rot90(m, k) of a 2-D array: k % 4 quarter turns counter-clockwise.
Rot90(m, k) ==
    LET kk == k % 4
        R == m.shape[1]
        C == m.shape[2]
    IN  CASE kk = 0 -> m
          [] kk = 1 -> [ shape |-> <<C, R>>,
                         data |-> [ ix \in Idx(<<C, R>>) |-> m.data[<<ix[2], C - 1 - ix[1]>>] ] ]
          [] kk = 2 -> [ shape |-> <<R, C>>,
                         data |-> [ ix \in Idx(<<R, C>>) |-> m.data[<<R - 1 - ix[1], C - 1 - ix[2]>>] ] ]
          [] OTHER  -> [ shape |-> <<C, R>>,
                         data |-> [ ix \in Idx(<<C, R>>) |-> m.data[<<R - 1 - ix[2], ix[1]>>] ] ]

\* What the cast of NaN to uint8 yields: undefined, 0 on a truncating
\* conversion and 255 on a saturating one.
NanCastOutcomes == { 0, 255 }

(***************************************************************************)
(* NiftiProcessorTool                                                      *)
(***************************************************************************)
\* _rotate_image: rotation_angle // 90 quarter turns; None // 90 raises.
RotateImage(img_array, rotation_angle) ==
    IF rotation_angle = None
    THEN [ok |-> FALSE, exc |-> Exc("TypeError", "unsupported operand type(s) for //"), out |-> img_array]
    ELSE [ok |-> TRUE, exc |-> NoExc, out |-> Rot90(img_array, rotation_angle[1] \div 90)]

\* Mutant of ExtractSlice: the last slice (of the last volume) instead of the first.
ExtractLastSlice(img_array) ==
    IF Len(img_array.shape) = 4
    THEN [ok |-> TRUE, exc |-> NoExc,
          out |-> Slice4(img_array, img_array.shape[3] - 1, img_array.shape[4] - 1)]
    ELSE IF Len(img_array.shape) = 3
         THEN [ok |-> TRUE, exc |-> NoExc, out |-> Slice3(img_array, img_array.shape[3] - 1)]
         ELSE [ok |-> FALSE, exc |-> Exc("IndexError", "too many indices for array"), out |-> NoArray]

\* slice_data of _process_nifti: the first slice (of the first volume).
ExtractSlice(img_array) ==
    IF Len(img_array.shape) = 4
    THEN [ok |-> TRUE, exc |-> NoExc, out |-> Slice4(img_array, 0, 0)]
    ELSE IF Len(img_array.shape) = 3
         THEN [ok |-> TRUE, exc |-> NoExc, out |-> Slice3(img_array, 0)]
         ELSE [ok |-> FALSE, exc |-> Exc("IndexError", "too many indices for array"), out |-> NoArray]

\* Mutant of Normalize: the minimum is not subtracted, p / p.max() * 255.
NormalizeNoMin(p) ==
    LET mn == ArrMin(p)
        mx == ArrMax(p)
    IN  [ ok |-> TRUE, exc |-> NoExc,
          outs |->
            IF mx = mn
            THEN { [shape |-> p.shape, data |-> [ix \in DOMAIN p.data |-> b]] : b \in NanCastOutcomes }
            ELSE { [shape |-> p.shape,
                    data |-> [ix \in DOMAIN p.data |-> ((p.data[ix] * 255) \div mx) % 256]] } ]

\* Mutant of Normalize: a division that raises on a zero divisor.
NormalizeRaising(p) ==
    LET mn == ArrMin(p)
        mx == ArrMax(p)
    IN  IF mx = mn
        THEN [ ok |-> FALSE, exc |-> Exc("ZeroDivisionError", "float division by zero"), outs |-> {} ]
        ELSE [ ok |-> TRUE, exc |-> NoExc,
               outs |-> { [shape |-> p.shape,
                           data |-> [ix \in DOMAIN p.data |->
                                       (((p.data[ix] - mn) * 255) \div (mx - mn)) % 256]] } ]

\* ((p - p.min()) / (p.max() - p.min()) * 255).astype(np.uint8): the planes the
\* expression can yield.  A constant plane divides 0 by 0, which numpy answers
\* with NaN and a warning, never an exception, and the cast of NaN is undefined.
Normalize(p) ==
    LET mn == ArrMin(p)
        mx == ArrMax(p)
    IN  [ ok |-> TRUE, exc |-> NoExc,
          outs |->
            IF mx = mn
            THEN { [shape |-> p.shape, data |-> [ix \in DOMAIN p.data |-> b]] : b \in NanCastOutcomes }
            ELSE { [shape |-> p.shape,
                    data |-> [ix \in DOMAIN p.data |->
                                (((p.data[ix] - mn) * 255) \div (mx - mn)) % 256]] } ]

Callers == { 1, 2 }

IdleFrame ==
    [ pc |-> "idle", nifti_path |-> <<>>, rotation_angle |-> None, img_array |-> NoArray,
      metadata |-> <<>>, slice_data |-> NoArray, processed_slice |-> NoArray,
      output_path |-> <<>>, ret |-> <<>>, exc |-> NoExc ]

\* Mutant of Catches: only the two errors the batch command line reports.
CatchesChecked(e) == e.type \in { "FileNotFoundError", "ValueError" }

\* Whether the except clause of _run (except Exception) catches e.
Catches(e) == e.type \in ExceptionClasses

\* An exception e raised inside the try block of _run.
Raise(f, e) ==
    IF Catches(e)
    THEN [ f EXCEPT !.pc = "failed",
                    !.ret = << [error |-> e.msg],
                               [nifti_path |-> f.nifti_path, analysis_status |-> "failed",
                                error_details |-> e.msg] >> ]
    ELSE [ f EXCEPT !.pc = "raised", !.exc = e ]

\* self.temp_dir / f"processed_nifti_{uuid.uuid4().hex[:8]}.png"
TempPath(hex) ==
    <<"t", "e", "m", "p", "/">>
      \o <<"p", "r", "o", "c", "e", "s", "s", "e", "d", "_", "n", "i", "f", "t", "i", "_">>
      \o hex \o <<".", "p", "n", "g">>

\* _run is called.
Run(c, paths, angles) ==
    /\ run[c].pc = "idle"
    /\ \E p \in paths, a \in angles :
          run' = [run EXCEPT ![c] = [IdleFrame EXCEPT !.pc = "loading", !.nifti_path = p,
                                                      !.rotation_angle = a]]
    /\ UNCHANGED <<disk, temp_dir, batch, dirs, pngs>>

\* nib.load, get_fdata and the metadata of _process_nifti.
Load(c) ==
    /\ run[c].pc = "loading"
    /\ LET f == run[c]
           r == NibLoad(disk, f.nifti_path)
       IN  run' = [run EXCEPT ![c] =
                     IF r.ok
                     THEN [ f EXCEPT !.pc = "extracting", !.img_array = r.file.vol,
                                     !.metadata = [ dimensions |-> Len(r.file.vol.shape),
                                                    shape |-> r.file.vol.shape,
                                                    affine |-> r.file.affine,
                                                    header_info |-> r.file.header ] ]
                     ELSE Raise(f, r.exc)]
    /\ UNCHANGED <<disk, temp_dir, batch, dirs, pngs>>

Extract(c) ==
    /\ run[c].pc = "extracting"
    /\ LET f == run[c]
           r == ExtractSlice(f.img_array)
       IN  run' = [run EXCEPT ![c] =
                     IF r.ok THEN [f EXCEPT !.pc = "rotating", !.slice_data = r.out]
                     ELSE Raise(f, r.exc)]
    /\ UNCHANGED <<disk, temp_dir, batch, dirs, pngs>>

Rotate(c) ==
    /\ run[c].pc = "rotating"
    /\ LET f == run[c]
           r == RotateImage(f.slice_data, f.rotation_angle)
       IN  run' = [run EXCEPT ![c] =
                     IF r.ok THEN [f EXCEPT !.pc = "normalizing", !.processed_slice = r.out]
                     ELSE Raise(f, r.exc)]
    /\ UNCHANGED <<disk, temp_dir, batch, dirs, pngs>>

NormalizeStep(c) ==
    /\ run[c].pc = "normalizing"
    /\ LET f == run[c]
           r == Normalize(f.processed_slice)
       IN  IF r.ok
           THEN \E img \in r.outs :
                   run' = [run EXCEPT ![c] = [f EXCEPT !.pc = "writing", !.processed_slice = img]]
           ELSE run' = [run EXCEPT ![c] = Raise(f, r.exc)]
    /\ UNCHANGED <<disk, temp_dir, batch, dirs, pngs>>

\* output_path, Image.fromarray(img_array).save(output_path) and the return.
Write(c) ==
    /\ run[c].pc = "writing"
    /\ \E hex \in HexIds :
          LET f == run[c]
              path == TempPath(hex)
          IN  /\ run' = [run EXCEPT ![c] =
                           [ f EXCEPT !.pc = "done", !.output_path = path,
                                      !.ret = << [image_path |-> path],
                                                 [ dimensions |-> f.metadata.dimensions,
                                                   shape |-> f.metadata.shape,
                                                   affine |-> f.metadata.affine,
                                                   header_info |-> f.metadata.header_info,
                                                   original_path |-> f.nifti_path,
                                                   output_path |-> path,
                                                   rotation_angle |-> f.rotation_angle,
                                                   analysis_status |-> "completed" ] >> ]]
              /\ temp_dir' = [ q \in DOMAIN temp_dir \cup {path} |->
                                 IF q = path THEN f.processed_slice ELSE temp_dir[q] ]
    /\ UNCHANGED <<disk, batch, dirs, pngs>>

\* The save fails (the disk is full, the directory is gone): OSError.
WriteFails(c) ==
    /\ run[c].pc = "writing"
    /\ \E hex \in HexIds :
          run' = [run EXCEPT ![c] =
                    Raise([run[c] EXCEPT !.output_path = TempPath(hex)],
                          Exc("OSError", "No space left on device"))]
    /\ UNCHANGED <<disk, temp_dir, batch, dirs, pngs>>

(***************************************************************************)
(* convert_nii_to_png                                                      *)
(***************************************************************************)
Cwd == <<"/", "w">>

OutPath == <<"o">>

\* output_dir_path: <<>> is None, <<p>> is the path p.
OutDirPaths == { <<>>, <<OutPath>> }

Slashes(s) == { i \in 1 .. Len(s) : s[i] = "/" }

Dots(s) == { i \in 1 .. Len(s) : s[i] = "." }

Last(S) == CHOOSE i \in S : \A j \in S : j <= i

First(S) == CHOOSE i \in S : \A j \in S : i <= j

\* os.path.basename
Basename(s) == IF Slashes(s) = {} THEN s ELSE SubSeq(s, Last(Slashes(s)) + 1, Len(s))

\* os.path.abspath
Abspath(s) == IF Len(s) > 0 /\ s[1] = "/" THEN s ELSE Cwd \o <<"/">> \o s

\* os.path.dirname of an absolute path
Dirname(s) == IF Last(Slashes(s)) = 1 THEN <<"/">> ELSE SubSeq(s, 1, Last(Slashes(s)) - 1)

\* os.path.join
Join(a, b) == IF a[Len(a)] = "/" THEN a \o b ELSE a \o <<"/">> \o b

\* fname.split('.', 1)[0]
Stem(fname) == IF Dots(fname) = {} THEN fname ELSE SubSeq(fname, 1, First(Dots(fname)) - 1)

DigitChars == <<"0", "1", "2", "3", "4", "5", "6", "7", "8", "9">>

RECURSIVE Str(_)
\* str(n) of a natural number
Str(n) == IF n < 10 THEN <<DigitChars[n + 1]>> ELSE Str(n \div 10) \o <<DigitChars[(n % 10) + 1]>>

\* s.zfill(w)
Zfill(s, w) == IF Len(s) >= w THEN s ELSE [i \in 1 .. (w - Len(s)) |-> "0"] \o s

\* f"{fname_noext}_z{str(current_slice+1).zfill(3)}.png"
ImageName3(fname_noext, current_slice) ==
    fname_noext \o <<"_", "z">> \o Zfill(Str(current_slice + 1), 3) \o <<".", "p", "n", "g">>

\* Mutant of ImageName4: the volume number left out of the name.
ImageName4NoVolume(fname_noext, current_volume, current_slice) ==
    ImageName3(fname_noext, current_slice)

\* f"{fname_noext}_vol{current_volume+1}_z{str(current_slice+1).zfill(3)}.png"
ImageName4(fname_noext, current_volume, current_slice) ==
    fname_noext \o <<"_", "v", "o", "l">> \o Str(current_volume + 1)
      \o <<"_", "z">> \o Zfill(Str(current_slice + 1), 3) \o <<".", "p", "n", "g">>

\* The rotation branches of the loop body: data is assigned at 90, 180 and 270
\* only; otherwise it keeps its binding (<<>>: unbound, <<plane>>: bound).
RotateBranch(data, plane, rotation_angle) ==
    IF rotation_angle = <<90>> THEN << Rot90(plane, 1) >>
    ELSE IF rotation_angle = <<180>> THEN << Rot90(Rot90(plane, 1), 1) >>
    ELSE IF rotation_angle = <<270>> THEN << Rot90(Rot90(Rot90(plane, 1), 1), 1) >>
    ELSE data

\* matplotlib.image.imsave(name, data, cmap='gray'): the grey level of each
\* pixel, scaled between the plane's min and max and looked up in 256 levels.
ImsaveGray(p) ==
    LET mn == ArrMin(p)
        mx == ArrMax(p)
        level(x) == IF mx = mn THEN 0
                    ELSE IF (256 * (x - mn)) \div (mx - mn) > 255 THEN 255
                    ELSE (256 * (x - mn)) \div (mx - mn)
    IN  [shape |-> p.shape, data |-> [ix \in DOMAIN p.data |-> level(p.data[ix])]]

IdleBatch ==
    [ pc |-> "idle", file_path |-> <<>>, output_dir_path |-> <<>>, rotation_angle |-> None,
      fname_noext |-> <<>>, output_dir |-> <<>>, image_array |-> NoArray,
      current_volume |-> 0, current_slice |-> 0, data |-> <<>>, slice_counter |-> 0,
      saved |-> <<>>, load_calls |-> 0, ret |-> <<>>, exc |-> NoExc ]

\* Mutant of Propagate: the error is swallowed and the function returns.
PropagateSwallowed(b, e) == [b EXCEPT !.pc = "finishing"]

\* An exception leaves convert_nii_to_png: nothing catches it.
Propagate(b, e) == [b EXCEPT !.pc = "raised", !.exc = e]

\* convert_nii_to_png is called.
Convert(paths, outs, angles) ==
    /\ batch.pc = "idle"
    /\ \E p \in paths, o \in outs, a \in angles :
          batch' = [IdleBatch EXCEPT !.pc = "validating", !.file_path = p,
                                     !.output_dir_path = o, !.rotation_angle = a]
    /\ UNCHANGED <<disk, run, temp_dir, dirs, pngs>>

\* Mutant of Precheck: the existence check left out.
PrecheckSuffixOnly(d, file_path) ==
    IF ~ (EndsWith(file_path, <<".", "n", "i", "i">>)
          \/ EndsWith(file_path, <<".", "n", "i", "i", ".", "g", "z">>))
    THEN Exc("ValueError", "Input file must be a NIfTI file")
    ELSE NoExc

\* The two checks that open convert_nii_to_png: the error raised, or NoExc.
Precheck(d, file_path) ==
    IF file_path \notin DOMAIN d
    THEN Exc("FileNotFoundError", "Input file not found")
    ELSE IF ~ (EndsWith(file_path, <<".", "n", "i", "i">>)
               \/ EndsWith(file_path, <<".", "n", "i", "i", ".", "g", "z">>))
    THEN Exc("ValueError", "Input file must be a NIfTI file")
    ELSE NoExc

\* The two checks, then fname, fname_noext and output_dir.
Validate ==
    /\ batch.pc = "validating"
    /\ LET b == batch
           e == Precheck(disk, b.file_path)
           fname == Basename(b.file_path)
           noext == Stem(fname)
       IN  batch' =
             IF e # NoExc
             THEN Propagate(b, e)
             ELSE [ b EXCEPT !.pc = "makedirs", !.fname_noext = noext,
                             !.output_dir =
                                IF b.output_dir_path = <<>>
                                THEN Join(Dirname(Abspath(b.file_path)), noext)
                                ELSE Join(Abspath(b.output_dir_path[1]), noext) ]
    /\ UNCHANGED <<disk, run, temp_dir, dirs, pngs>>

\* os.makedirs(output_dir, exist_ok=True)
MakeDirs ==
    /\ batch.pc = "makedirs"
    /\ dirs' = dirs \cup { batch.output_dir }
    /\ batch' = [batch EXCEPT !.pc = "loading"]
    /\ UNCHANGED <<disk, run, temp_dir, pngs>>

\* nibabel.load and get_fdata; then the loop the rank selects, or none.
LoadVolume ==
    /\ batch.pc = "loading"
    /\ LET b == [batch EXCEPT !.load_calls = @ + 1]
           r == NibLoad(disk, b.file_path)
       IN  batch' =
             IF ~ r.ok THEN Propagate(b, r.exc)
             ELSE [ b EXCEPT !.image_array = r.file.vol,
                             !.pc = IF Len(r.file.vol.shape) \in {3, 4} THEN "loop" ELSE "finishing" ]
    /\ UNCHANGED <<disk, run, temp_dir, dirs, pngs>>

\* The loop variables after one more plane: the slice runs inside the volume.
Advance(b) ==
    LET nz == b.image_array.shape[3]
        nw == IF Len(b.image_array.shape) = 4 THEN b.image_array.shape[4] ELSE 1
    IN  IF b.current_slice + 1 < nz
        THEN [b EXCEPT !.current_slice = @ + 1]
        ELSE IF b.current_volume + 1 < nw
             THEN [b EXCEPT !.current_slice = 0, !.current_volume = @ + 1]
             ELSE [b EXCEPT !.pc = "finishing"]

\* The plane the loop body indexes.
CurrentPlane(b) ==
    IF Len(b.image_array.shape) = 3
    THEN Slice3(b.image_array, b.current_slice)
    ELSE Slice4(b.image_array, b.current_slice, b.current_volume)

\* The image_name of the loop body.
CurrentName(b) ==
    Join(b.output_dir,
         IF Len(b.image_array.shape) = 3
         THEN ImageName3(b.fname_noext, b.current_slice)
         ELSE ImageName4(b.fname_noext, b.current_volume, b.current_slice))

\* One pass of the loop body: rotate, name, imsave, count.
SavePlane ==
    /\ batch.pc = "loop"
    /\ LET data == RotateBranch(batch.data, CurrentPlane(batch), batch.rotation_angle)
           b == [batch EXCEPT !.data = data]
           name == CurrentName(b)
       IN  IF data = <<>>
           THEN /\ batch' = Propagate(b, Exc("UnboundLocalError", "local variable 'data' referenced before assignment"))
                /\ pngs' = pngs
           ELSE /\ batch' = Advance([b EXCEPT !.slice_counter = @ + 1,
                                              !.saved = Append(@, name)])
                /\ pngs' = [ q \in DOMAIN pngs \cup {name} |->
                               IF q = name THEN ImsaveGray(data[1]) ELSE pngs[q] ]
    /\ UNCHANGED <<disk, run, temp_dir, dirs>>

\* imsave fails (the disk is full, the directory is gone): OSError propagates.
SavePlaneFails ==
    /\ batch.pc = "loop"
    /\ LET data == RotateBranch(batch.data, CurrentPlane(batch), batch.rotation_angle)
       IN  /\ data # <<>>
           /\ batch' = Propagate([batch EXCEPT !.data = data],
                                 Exc("OSError", "No space left on device"))
    /\ UNCHANGED <<disk, run, temp_dir, dirs, pngs>>

\* return output_dir
Finish ==
    /\ batch.pc = "finishing"
    /\ batch' = [batch EXCEPT !.pc = "done", !.ret = batch.output_dir]
    /\ UNCHANGED <<disk, run, temp_dir, dirs, pngs>>

(***************************************************************************)
(* One invocation of either driver on a file system holding one volume.    *)
(***************************************************************************)
Init ==
    /\ disk \in { DiskWith(v) : v \in Volumes }
    /\ run = [c \in Callers |-> IdleFrame]
    /\ temp_dir = <<>>
    /\ batch = IdleBatch
    /\ dirs = {}
    /\ pngs = <<>>

Next ==
    \/ batch.pc = "idle" /\ Run(1, Paths, Angles)
    \/ Load(1)
    \/ Extract(1)
    \/ Rotate(1)
    \/ NormalizeStep(1)
    \/ Write(1)
    \/ WriteFails(1)
    \/ run[1].pc = "idle" /\ Convert(Paths, OutDirPaths, Angles)
    \/ Validate
    \/ MakeDirs
    \/ LoadVolume
    \/ SavePlane
    \/ SavePlaneFails
    \/ Finish

Spec == Init /\ [][Next]_vars

(***************************************************************************)
(* Two callers of _run sharing the tool and its temporary directory.       *)
(***************************************************************************)
ConcVolumes == { v \in Volumes : Voxels(v.shape) = 1 }

ConcPaths == { NiiPath, MissingPath }

ConcAngles == { <<0>>, <<90>> }

InitConc ==
    /\ disk \in { DiskWith(v) : v \in ConcVolumes }
    /\ run = [c \in Callers |-> IdleFrame]
    /\ temp_dir = <<>>
    /\ batch = IdleBatch
    /\ dirs = {}
    /\ pngs = <<>>

NextConc ==
    \E c \in Callers :
        \/ Run(c, ConcPaths, ConcAngles)
        \/ Load(c)
        \/ Extract(c)
        \/ Rotate(c)
        \/ NormalizeStep(c)
        \/ Write(c)
        \/ WriteFails(c)

SpecConc == InitConc /\ [][NextConc]_vars

(***************************************************************************)
(* The single-slice driver.                                                *)
(***************************************************************************)
InFlight == { "loading", "extracting", "rotating", "normalizing", "writing" }

\* The next step of caller c's invocation.
Step(c) ==
    Load(c) \/ Extract(c) \/ Rotate(c) \/ NormalizeStep(c) \/ Write(c) \/ WriteFails(c)

\* str(e) of the first step that fails on the frame's inputs; the save is the
\* only step left to fail when load, extract and rotate succeed.
FirstFailure(f) ==
    IF f.nifti_path \notin DOMAIN disk THEN "No such file or no access"
    ELSE IF disk[f.nifti_path].kind # "nifti" THEN "Cannot work out file type"
    ELSE IF Len(disk[f.nifti_path].vol.shape) \notin {3, 4} THEN "too many indices for array"
    ELSE IF f.rotation_angle = None THEN "unsupported operand type(s) for //"
    ELSE "No space left on device"

\* C1: _run never lets an exception reach its caller.  Every invocation in
\* flight can take its next step; a failure of load, extract, rotate,
\* normalize or write ends in the pair ({error: str(e)}, {nifti_path,
\* analysis_status: "failed", error_details: str(e)}) for the step that
\* failed; an invocation no step of which fails ends in ({image_path},
\* metadata) with analysis_status "completed" and the file written.
C1_RunNeverRaises ==
    \A c \in Callers :
        LET f == run[c]
        IN  /\ f.pc # "raised"
            /\ f.pc \in InFlight => ENABLED Step(c)
            /\ f.pc = "failed" =>
                  f.ret = << [error |-> FirstFailure(f)],
                             [nifti_path |-> f.nifti_path, analysis_status |-> "failed",
                              error_details |-> FirstFailure(f)] >>
            /\ f.pc = "done" =>
                  /\ FirstFailure(f) = "No space left on device"
                  /\ f.ret[1] = [image_path |-> f.output_path]
                  /\ f.ret[2].analysis_status = "completed"
                  /\ f.output_path \in DOMAIN temp_dir

\* A failure of the last step, the save, returned as a failed result.
C1_Witness ==
    /\ run[1].pc = "failed"
    /\ run[1].ret[2].error_details = "No space left on device"
    /\ run[1].processed_slice # NoArray

IsFlat442(v) ==
    /\ v.shape = <<4, 4, 2>>
    /\ \A ix \in DOMAIN v.data, iy \in DOMAIN v.data : v.data[ix] = v.data[iy]

\* C7: an all-constant volume of shape (4,4,2) given to _run with an integer
\* angle is never failed by the normalization (max = min): nothing before the
\* save fails, the save is possible, and once it is done the result carries
\* analysis_status "completed", the path of the written image and
\* shape (4,4,2).
C7_FlatVolumeCompletes ==
    LET f == run[1]
    IN  ( /\ f.pc # "idle"
          /\ f.nifti_path \in { NiiPath, GzPath }
          /\ IsFlat442(disk[NiiPath].vol)
          /\ f.rotation_angle # None )
        => /\ f.pc = "failed" => f.ret[2].error_details = "No space left on device"
           /\ f.pc = "failed" => f.processed_slice.shape = <<4, 4>>
           /\ f.pc = "writing" => ENABLED Write(1)
           /\ f.pc = "done" =>
                 /\ f.ret[2].analysis_status = "completed"
                 /\ f.ret[2].shape = <<4, 4, 2>>
                 /\ f.ret[2].dimensions = 3
                 /\ f.ret[1].image_path \in DOMAIN temp_dir
                 /\ temp_dir[f.ret[1].image_path].shape = <<4, 4>>

C7_Witness ==
    /\ run[1].pc = "done"
    /\ IsFlat442(run[1].img_array)
    /\ run[1].ret[2].analysis_status = "completed"
    /\ run[1].ret[2].shape = <<4, 4, 2>>

\* C6: the normalization step of _run, on a plane with at least two distinct
\* values, yields a plane of the same shape whose values all lie in 0..255,
\* 0 wherever the plane has its least value lo, 255 wherever it has its
\* greatest value hi, and elsewhere (p - lo) * 255 / (hi - lo) truncated, with
\* lo and hi taken over that plane alone.
C6_NormalizeRange ==
    [][ \A c \in Callers :
          (run[c].pc = "normalizing" /\ run'[c].pc = "writing") =>
             LET p == run[c].processed_slice
                 q == run'[c].processed_slice
                 vs == { p.data[ix] : ix \in DOMAIN p.data }
             IN  Cardinality(vs) >= 2 =>
                    \E lo \in vs, hi \in vs :
                       /\ \A v \in vs : lo <= v /\ v <= hi
                       /\ q.shape = p.shape
                       /\ \A ix \in DOMAIN p.data :
                             /\ q.data[ix] \in 0 .. 255
                             /\ p.data[ix] = lo => q.data[ix] = 0
                             /\ p.data[ix] = hi => q.data[ix] = 255
                             /\ q.data[ix] * (hi - lo) <= (p.data[ix] - lo) * 255
                             /\ (p.data[ix] - lo) * 255 < (q.data[ix] + 1) * (hi - lo)
      ]_vars

\* A normalized plane with a least, a greatest and an interior value.
C6_Witness ==
    /\ run[1].pc = "writing"
    /\ { 0, 127, 255 } \subseteq
          { run[1].processed_slice.data[ix] : ix \in DOMAIN run[1].processed_slice.data }

\* The plane a[:, :, 0] (3-D) or a[:, :, 0, 0] (4-D), element by element.
FirstPlane(a) ==
    [ shape |-> <<a.shape[1], a.shape[2]>>,
      data |-> [ ix \in Axis(a.shape[1]) \X Axis(a.shape[2]) |->
                   IF Len(a.shape) = 4 THEN a.data[<<ix[1], ix[2], 0, 0>>]
                   ELSE a.data[<<ix[1], ix[2], 0>>] ] ]

\* The indices of a outside its first plane.
OutsideFirstPlane(a) ==
    { ix \in DOMAIN a.data : ix[3] # 0 \/ (Len(a.shape) = 4 /\ ix[4] # 0) }

\* C8: _run extracts slice 0 (of volume 0) whatever the rest of the volume
\* holds: slice_data is that plane, no change of one element outside it
\* changes what is extracted, and the image normalized and written is a
\* normalization of the rotation of that plane.
C8_FirstPlaneOnly ==
    \A c \in Callers :
        LET f == run[c]
            a == f.img_array
        IN  f.pc \in { "rotating", "normalizing", "writing", "done" } =>
              /\ f.slice_data = FirstPlane(a)
              /\ \A ix \in OutsideFirstPlane(a), v \in Vals :
                    LET r == ExtractSlice([a EXCEPT !.data[ix] = v])
                    IN  r.ok /\ r.out = f.slice_data
              /\ f.pc = "writing" =>
                    f.processed_slice \in
                       Normalize(RotateImage(FirstPlane(a), f.rotation_angle).out).outs
              /\ f.pc = "done" =>
                    temp_dir[f.output_path] \in
                       Normalize(RotateImage(FirstPlane(a), f.rotation_angle).out).outs

\* A 4-D volume with several slices and volumes, each other plane of which
\* differs from the first, processed to the end.
C8_Witness ==
    LET f == run[1]
        a == f.img_array
    IN  /\ f.pc = "done"
        /\ Len(a.shape) = 4
        /\ a.shape[3] >= 2
        /\ a.shape[4] >= 2
        /\ \A k \in Axis(a.shape[3]), w \in Axis(a.shape[4]) :
              <<k, w>> # <<0, 0>> => Slice4(a, k, w) # f.slice_data

(***************************************************************************)
(* The batch driver.                                                       *)
(***************************************************************************)
\* The next step of the batch invocation.
BatchStep == Validate \/ MakeDirs \/ LoadVolume \/ SavePlane \/ SavePlaneFails \/ Finish

\* file_path ends in .nii or in .nii.gz, character by character.
HasNiftiSuffix(p) ==
    LET n == Len(p)
    IN  \/ n >= 4 /\ p[n - 3] = "." /\ p[n - 2] = "n" /\ p[n - 1] = "i" /\ p[n] = "i"
        \/ /\ n >= 7
           /\ <<p[n - 6], p[n - 5], p[n - 4], p[n - 3], p[n - 2], p[n - 1], p[n]>>
                = <<".", "n", "i", "i", ".", "g", "z">>

NothingTouched ==
    /\ dirs = {}
    /\ pngs = <<>>
    /\ batch.load_calls = 0
    /\ batch.image_array = NoArray
    /\ batch.ret = <<>>

\* C3: convert_nii_to_png checks its input before any side effect.  Once the
\* checks have run, a path that does not exist has raised FileNotFoundError
\* and an existing path that ends neither in .nii nor in .nii.gz has raised
\* ValueError, in both cases with no directory created, no file written and
\* no load attempted.
C3_ValidatesFirst ==
    LET b == batch
    IN  b.pc \notin { "idle", "validating" } =>
          /\ b.file_path \notin DOMAIN disk =>
                b.pc = "raised" /\ b.exc.type = "FileNotFoundError" /\ NothingTouched
          /\ (b.file_path \in DOMAIN disk /\ ~ HasNiftiSuffix(b.file_path)) =>
                b.pc = "raised" /\ b.exc.type = "ValueError" /\ NothingTouched
          /\ (b.pc = "raised" /\ b.exc.type \in { "FileNotFoundError", "ValueError" }) =>
                NothingTouched

\* An existing file with another suffix, refused.
C3_Witness ==
    /\ batch.pc = "raised"
    /\ batch.file_path = PngPath
    /\ batch.exc.type = "ValueError"

\* n, 1 <= n <= 999, in three decimal digits.
ThreeDigits(n) ==
    << DigitChars[((n \div 100) % 10) + 1], DigitChars[((n \div 10) % 10) + 1],
       DigitChars[(n % 10) + 1] >>

\* n, 1 <= n <= 99, in decimal without padding.
Decimal(n) ==
    IF n < 10 THEN << DigitChars[n + 1] >>
    ELSE << DigitChars[(n \div 10) + 1], DigitChars[(n % 10) + 1] >>

\* The stem and the output directory of the two decodable input files.
ExpectedStem(b) == IF b.file_path = NiiPath THEN <<"s">> ELSE <<"t">>

ExpectedDir(b) ==
    IF b.output_dir_path # <<>> THEN <<"/", "w", "/", "o", "/">> \o ExpectedStem(b)
    ELSE IF b.file_path = NiiPath THEN <<"/", "w", "/", "d", "/", "s">>
    ELSE <<"/", "w", "/", "t">>

Png == <<".", "p", "n", "g">>

\* C2: a completed batch conversion with a supported angle has written, for
\* a 3-D volume (X,Y,Z), the Z files <dir>/<stem>_z<k+1 in 3 digits>.png in
\* the order k = 0..Z-1, and for a 4-D volume (X,Y,Z,W) the Z*W files
\* <dir>/<stem>_vol<w+1>_z<k+1 in 3 digits>.png with volume w's slices before
\* volume w+1's; the names are pairwise distinct and are the files of the
\* output directory.
C2_BatchFiles ==
    LET b == batch
        a == b.image_array
        Z == a.shape[3]
        W == a.shape[4]
        dir == ExpectedDir(b) \o <<"/">> \o ExpectedStem(b)
    IN  (b.pc = "done" /\ b.rotation_angle \in Supported /\ Len(a.shape) \in {3, 4}) =>
          /\ b.ret = ExpectedDir(b)
          /\ b.ret \in dirs
          /\ Len(a.shape) = 3 =>
                /\ Len(b.saved) = Z
                /\ \A k \in 0 .. (Z - 1) :
                      b.saved[k + 1] = dir \o <<"_", "z">> \o ThreeDigits(k + 1) \o Png
          /\ Len(a.shape) = 4 =>
                /\ Len(b.saved) = Z * W
                /\ \A w \in 0 .. (W - 1), k \in 0 .. (Z - 1) :
                      b.saved[(w * Z) + k + 1] =
                         dir \o <<"_", "v", "o", "l">> \o Decimal(w + 1)
                             \o <<"_", "z">> \o ThreeDigits(k + 1) \o Png
          /\ DOMAIN pngs = { b.saved[i] : i \in 1 .. Len(b.saved) }
          /\ Cardinality(DOMAIN pngs) = Len(b.saved)
          /\ b.slice_counter = Len(b.saved)

\* A 4-D volume of several slices and several volumes, converted.
C2_Witness ==
    /\ batch.pc = "done"
    /\ batch.rotation_angle = <<90>>
    /\ Len(batch.image_array.shape) = 4
    /\ batch.image_array.shape[3] >= 2
    /\ batch.image_array.shape[4] >= 2
    /\ batch.file_path = GzPath

TotalPlanes(a) == IF Len(a.shape) = 3 THEN a.shape[3] ELSE a.shape[3] * a.shape[4]

\* C10: a batch conversion completes in full or aborts.  When
\* convert_nii_to_png has returned the output directory for a 3-D or 4-D
\* volume, the planes counted and the files written are all Z (3-D) or Z*W
\* (4-D) planes of the volume; while planes remain the loop has not returned;
\* and once an error has left the function nothing more runs: no directory is
\* returned and the files are those written before the error.
C10_AllOrAbort ==
    LET b == batch
        a == b.image_array
    IN  /\ (b.pc \in { "finishing", "done" } /\ Len(a.shape) \in {3, 4}) =>
              /\ b.slice_counter = TotalPlanes(a)
              /\ Cardinality(DOMAIN pngs) = TotalPlanes(a)
        /\ b.pc = "done" => b.ret = b.output_dir /\ b.exc = NoExc
        /\ b.pc = "loop" => b.slice_counter < TotalPlanes(a) /\ b.ret = <<>>
        /\ b.pc = "raised" =>
              /\ b.ret = <<>>
              /\ b.exc # NoExc
              /\ ~ ENABLED BatchStep
              /\ Cardinality(DOMAIN pngs) = b.slice_counter

\* A save that fails after at least one plane was written, with planes left.
C10_Witness ==
    /\ batch.pc = "raised"
    /\ batch.exc.type = "OSError"
    /\ batch.slice_counter >= 1
    /\ batch.slice_counter < TotalPlanes(batch.image_array)

(***************************************************************************)
(* The rotation angle.                                                     *)
(***************************************************************************)
\* The batch half of C4: no plane is bound, written or returned for an angle
\* outside the supported set once the loop is entered.
C4_Batch ==
    (batch.rotation_angle \notin Supported /\ batch.pc # "idle") =>
       /\ pngs = <<>>
       /\ batch.data = <<>>
       /\ (batch.pc = "done" => Len(batch.image_array.shape) \notin {3, 4})

\* The single-slice half of C4: an invocation with an angle outside the
\* supported set never gets past the rotation.
C4_Single ==
    \A c \in Callers :
        (run[c].pc # "idle" /\ run[c].rotation_angle \notin Supported) =>
           /\ run[c].pc \notin { "normalizing", "writing", "done" }
           /\ temp_dir = <<>>

\* C4: for an angle outside {0, 90, 180, 270} the rotation fails in both
\* drivers, and no plane is rotated, normalized or written.
C4_UnsupportedAngleFails == C4_Single /\ C4_Batch

\* One canonical 90-degree turn, counter-clockwise: out[a][b] = m[b][C-1-a].
Turn(m) ==
    [ shape |-> <<m.shape[2], m.shape[1]>>,
      data |-> [ ix \in Axis(m.shape[2]) \X Axis(m.shape[1]) |->
                   m.data[<<ix[2], m.shape[2] - 1 - ix[1]>>] ] ]

RECURSIVE Turns(_, _)
Turns(m, n) == IF n = 0 THEN m ELSE Turn(Turns(m, n - 1))

\* The plane of the latest pass of the batch loop: the one whose save failed,
\* or else the last one counted.
LatestPlane(b) ==
    LET a == b.image_array
        i == IF b.pc = "raised" THEN b.slice_counter ELSE b.slice_counter - 1
    IN  IF Len(a.shape) = 3 THEN Slice3(a, i)
        ELSE Slice4(a, i % a.shape[3], i \div a.shape[3])

\* The single-slice half of C5.
C5_Single ==
    \A c \in Callers :
        LET f == run[c]
        IN  f.rotation_angle \in Supported =>
              /\ f.pc = "normalizing" =>
                    /\ f.processed_slice = Turns(f.slice_data, f.rotation_angle[1] \div 90)
                    /\ Turns(f.slice_data, 4) = f.slice_data
                    /\ f.rotation_angle = <<0>> => f.processed_slice = f.slice_data
              /\ f.pc = "failed" =>
                    f.ret[2].error_details # "unsupported operand type(s) for //"

\* The batch half of C5.
C5_Batch ==
    LET b == batch
    IN  b.rotation_angle \in Supported =>
          /\ b.pc = "raised" => b.exc.type # "UnboundLocalError"
          /\ (b.slice_counter >= 1 \/ (b.pc = "raised" /\ b.exc.type = "OSError")) =>
                b.data = << Turns(LatestPlane(b), b.rotation_angle[1] \div 90) >>

\* The batch half of C5 for the angles 90, 180 and 270 alone.
C5_BatchNonZero == batch.rotation_angle # <<0>> => C5_Batch

\* C5: for every angle a in {0, 90, 180, 270} the rotation each driver
\* applies to a plane is a/90 canonical 90-degree turns; angle 0 leaves the
\* plane as it is and four turns give the plane back.
C5_RotationIsQuarterTurns == C5_Single /\ C5_Batch

(***************************************************************************)
(* Concurrent callers.                                                     *)
(***************************************************************************)
\* C9: two invocations of _run that share the temporary directory write to
\* different output paths.
C9_DistinctOutputs ==
    \A c1 \in Callers, c2 \in Callers :
        (c1 # c2 /\ run[c1].pc = "done" /\ run[c2].pc = "done") =>
           run[c1].output_path # run[c2].output_path

====
